---- MODULE Spec2Model ----
(***************************************************************************)
(* Model of src/data_quality.py: AdvancedDataQualityFramework.             *)
(*                                                                         *)
(* The state is the framework object (self.rules, self.results), the      *)
(* position of run() in its two nested loops, the external quarantine      *)
(* store and report directory, the logging sink, and the exit code of      *)
(* the __main__ block.  The validators are operators on a DataFrame        *)
(* modelled as its columns and the sequence of its rows; a cell is <<>>    *)
(* (SQL NULL) or <<v>>.                                                    *)
(* INFO progress messages are not recorded in the log; WARNING, ERROR      *)
(* and CRITICAL messages are.  The report directory is taken to be         *)
(* writable (json.dump at line 106 does not raise).                        *)
(***************************************************************************)
EXTENDS Integers, Sequences, FiniteSets, TLC

\* ------------------------------------------------------------------------
\* Bounds of the model
\* ------------------------------------------------------------------------

\* Largest number of rules a validation set of the rule document declares.
MaxRules == 2

\* Largest number of rows of a sampled DataFrame.
MaxRows == 3

\* ------------------------------------------------------------------------
\* Values
\* ------------------------------------------------------------------------

\* SQL NULL / a present value, as a cell of a DataFrame row.
Null == <<>>

V(x) == <<x>>

IsNull(c) == c = Null

\* A column name is a sequence of characters runs; " " is the blank.
Col(name) == <<name>>

\* dict.get(key, default) of a Python dict modelled as a function.
Get(d, key, default) == IF key \in DOMAIN d THEN d[key] ELSE default

\* str.upper() on the on_fail spellings that occur in rule documents.
Upper(s) ==
    CASE s = "stop" -> "STOP"
      [] s = "Stop" -> "STOP"
      [] s = "warn" -> "WARN"
      [] OTHER -> s

\* str.replace(' ', '_') on a column name.
ReplaceSpaces(column) ==
    [i \in DOMAIN column |-> IF column[i] = " " THEN "_" ELSE column[i]]

\* ------------------------------------------------------------------------
\* DataFrames
\* ------------------------------------------------------------------------

Row(id, name, state, age) ==
    (Col("customer_id") :> id) @@ (Col("name") :> name)
        @@ (Col("state") :> state) @@ (Col("age") :> age)

\* A DataFrame: its columns and its rows.
Frame(schema, rows) == [schema |-> schema, rows |-> rows]

\* data/customers_v2.csv as written by setup_test_environment.
customers_data ==
  Frame({Col("customer_id"), Col("name"), Col("state"), Col("age")},
    << Row(V(101), V("Alice"),   V("SP"), V(30)),
       Row(V(102), V("Bob"),     V("RJ"), V(25)),
       Row(V(103), V("Charlie"), V("MG"), V(35)),
       Row(V(104), V("David"),   V("SP"), V(40)),
       Row(V(104), V("Eve"),     V("BA"), V(22)),
       Row(V(105), V("Frank"),   Null,    V(55)),
       Row(V(106), V("Grace"),   V("SP"), Null),
       Row(V(107), V("Heidi"),   V("RJ"), V(28)) >>)

\* A source file that holds a header line only, and whose header has no
\* state column.
empty_data == Frame({Col("customer_id"), Col("name"), Col("age")}, << >>)

\* What spark.read...load(path) returns for each data_source_path.
SparkLoad(path) ==
    CASE path = "data/customers_v2.csv" -> customers_data
      [] path = "data/customers_empty.csv" -> empty_data

\* df.count()
Count(df) == Len(df.rows)

\* The cells of a column, one per row.
Cells(df, column) == {df.rows[i][column] : i \in DOMAIN df.rows}

\* Number of rows of df whose cell in column is c.
Occurrences(df, column, c) ==
    Cardinality({i \in DOMAIN df.rows : df.rows[i][column] = c})

RECURSIVE SumSeq(_, _, _)
\* Sum of the non-null cells of a column from row i on.
SumSeq(df, column, i) ==
    IF i > Len(df.rows) THEN 0
    ELSE (IF IsNull(df.rows[i][column]) THEN 0 ELSE df.rows[i][column][1])
            + SumSeq(df, column, i + 1)

\* A quotient num/den (den > 0) printed with format spec ".2f", as hundredths.
Fixed2(num, den) == (2 * 100 * num + den) \div (2 * den)

\* ------------------------------------------------------------------------
\* Validator Library
\* ------------------------------------------------------------------------

\* The keys of rule["params"] each validator subscripts.
ParamKeys(rule_type) ==
    CASE rule_type = "has_accepted_values" -> {"values"}
      [] rule_type = "is_in_range" -> {"min", "max"}
      [] rule_type = "matches_regex" -> {"pattern"}
      [] rule_type = "null_percentage_is_less_than" -> {"threshold"}
      [] rule_type = "mean_is_between" -> {"min", "max"}
      [] OTHER -> {}

\* A validator raises (KeyError on rule["column"], rule["params"] or
\* rule["params"][k]; AnalysisException on a column the DataFrame lacks)
\* before it returns anything.
ValidatorRaises(df, rule) ==
    \/ "column" \notin DOMAIN rule
    \/ /\ ParamKeys(rule["rule_type"]) # {}
       /\ \/ "params" \notin DOMAIN rule
          \/ ~(ParamKeys(rule["rule_type"]) \subseteq DOMAIN rule["params"])
    \/ rule["column"] \notin df.schema

_validate_not_null(df, rule) ==
    LET column == rule["column"]
        isnull(row) == IsNull(row[column])
        failing_records == Frame(df.schema, SelectSeq(df.rows, isnull))
        null_count == Count(failing_records)
    IN  [status |-> IF null_count = 0 THEN "PASS" ELSE "FAIL",
         metrics |-> [null_count |-> null_count],
         failing_records_df |-> failing_records]

_validate_is_unique(df, rule) ==
    LET column == rule["column"]
        \* groupBy(column).agg(count).filter(cnt > 1): NULL is a group key
        duplicates == {c \in Cells(df, column) : Occurrences(df, column, c) > 1}
        duplicate_count == Cardinality(duplicates)
        \* inner equi-join on column: a NULL key joins with nothing
        joins(row) == ~IsNull(row[column]) /\ row[column] \in duplicates
        failing_records == Frame(df.schema, SelectSeq(df.rows, joins))
    IN  [status |-> IF duplicate_count = 0 THEN "PASS" ELSE "FAIL",
         metrics |-> [duplicate_count |-> duplicate_count],
         failing_records_df |-> failing_records]

_validate_accepted_values(df, rule) ==
    LET column == rule["column"]
        accepted_list == rule["params"]["values"]
        \* ~isin(...) is NULL on a NULL cell, and filter drops the row
        notin(row) == ~IsNull(row[column]) /\ row[column][1] \notin accepted_list
        failing_records == Frame(df.schema, SelectSeq(df.rows, notin))
        invalid_count == Count(failing_records)
    IN  [status |-> IF invalid_count = 0 THEN "PASS" ELSE "FAIL",
         metrics |-> [accepted_list |-> accepted_list, invalid_count |-> invalid_count],
         failing_records_df |-> failing_records]

_validate_null_percentage(df, rule) ==
    LET column == rule["column"]
        threshold == rule["params"]["threshold"]
        total_count == Count(df)
        isnull(row) == IsNull(row[column])
        null_count == Count(Frame(df.schema, SelectSeq(df.rows, isnull)))
        \* (null_count / total_count) * 100 < threshold, or 0 < threshold
        below == IF total_count > 0
                 THEN null_count * 100 < threshold * total_count
                 ELSE 0 < threshold
    IN  [status |-> IF below THEN "PASS" ELSE "FAIL",
         metrics |-> [total_rows |-> total_count,
                      null_count |-> null_count,
                      null_percentage |-> IF total_count > 0
                                          THEN Fixed2(null_count * 100, total_count)
                                          ELSE 0,
                      threshold |-> threshold]]

\* Variant: the upper bound is exclusive.
_validate_mean_between_Exclusive(df, rule) ==
    LET column == rule["column"]
        min_val == rule["params"]["min"]
        max_val == rule["params"]["max"]
        notnull(row) == ~IsNull(row[column])
        n == Count(Frame(df.schema, SelectSeq(df.rows, notnull)))
        total == SumSeq(df, column, 1)
        mean_is_none == n = 0
        between == min_val * n <= total /\ total < max_val * n
    IN  [status |-> IF ~mean_is_none /\ between THEN "PASS" ELSE "FAIL",
         metrics |-> [mean_value |-> IF mean_is_none THEN <<"N/A">>
                                     ELSE <<"fixed2", Fixed2(total, n)>>,
                      min_expected |-> min_val,
                      max_expected |-> max_val]]

_validate_mean_between(df, rule) ==
    LET column == rule["column"]
        min_val == rule["params"]["min"]
        max_val == rule["params"]["max"]
        notnull(row) == ~IsNull(row[column])
        n == Count(Frame(df.schema, SelectSeq(df.rows, notnull)))
        total == SumSeq(df, column, 1)
        \* mean() of no non-null value is None
        mean_is_none == n = 0
        between == min_val * n <= total /\ total <= max_val * n
    IN  [status |-> IF ~mean_is_none /\ between THEN "PASS" ELSE "FAIL",
         metrics |-> [mean_value |-> IF mean_is_none THEN <<"N/A">>
                                     ELSE <<"fixed2", Fixed2(total, n)>>,
                      min_expected |-> min_val,
                      max_expected |-> max_val]]

_validate_in_range(df, rule) ==
    LET column == rule["column"]
        min_val == rule["params"]["min"]
        max_val == rule["params"]["max"]
        \* (col < min) | (col > max) is NULL on a NULL cell
        outside(row) == /\ ~IsNull(row[column])
                        /\ (row[column][1] < min_val \/ row[column][1] > max_val)
        failing_records == Frame(df.schema, SelectSeq(df.rows, outside))
        out_of_range_count == Count(failing_records)
    IN  [status |-> IF out_of_range_count = 0 THEN "PASS" ELSE "FAIL",
         metrics |-> [min_range |-> min_val, max_range |-> max_val,
                      out_of_range_count |-> out_of_range_count],
         failing_records_df |-> failing_records]

\* Column.rlike(pattern) of the tabular engine: a pattern is given by the
\* set of strings in which the engine finds a match.
Rlike(value, pattern) == value \in pattern

_validate_regex(df, rule) ==
    LET column == rule["column"]
        pattern == rule["params"]["pattern"]
        \* ~rlike(...) is NULL on a NULL cell
        mismatch(row) == ~IsNull(row[column]) /\ ~Rlike(row[column][1], pattern)
        failing_records == Frame(df.schema, SelectSeq(df.rows, mismatch))
        mismatch_count == Count(failing_records)
    IN  [status |-> IF mismatch_count = 0 THEN "PASS" ELSE "FAIL",
         metrics |-> [regex_pattern |-> pattern, mismatch_count |-> mismatch_count],
         failing_records_df |-> failing_records]

\* ------------------------------------------------------------------------
\* Rule Dispatcher
\* ------------------------------------------------------------------------

\* The keys of validation_map.
validation_map ==
    {"is_not_null", "is_unique", "has_accepted_values", "is_in_range",
     "matches_regex", "null_percentage_is_less_than", "mean_is_between"}

\* validation_func(df, rule) for the function validation_map holds for the
\* rule's type.
validation_func(df, rule) ==
    CASE rule["rule_type"] = "is_not_null" -> _validate_not_null(df, rule)
      [] rule["rule_type"] = "is_unique" -> _validate_is_unique(df, rule)
      [] rule["rule_type"] = "has_accepted_values" -> _validate_accepted_values(df, rule)
      [] rule["rule_type"] = "is_in_range" -> _validate_in_range(df, rule)
      [] rule["rule_type"] = "matches_regex" -> _validate_regex(df, rule)
      [] rule["rule_type"] = "null_percentage_is_less_than"
            -> _validate_null_percentage(df, rule)
      [] rule["rule_type"] = "mean_is_between" -> _validate_mean_between(df, rule)

\* ------------------------------------------------------------------------
\* Configuration and rule document
\* ------------------------------------------------------------------------

\* config["paths"] as written by setup_test_environment.
config ==
    [paths |-> [report_path |-> "reports/", quarantine_path |-> "quarantine/"]]

\* The rules a rule document may declare: the three rules of
\* setup_test_environment (lines 183-194, with other optional keys and a
\* threshold the data misses), a rule of a type validation_map lacks, and
\* two range rules on one column.
RuleCatalog ==
    { [rule_type |-> "is_unique", column |-> Col("customer_id"),
       on_fail |-> "STOP", quarantine |-> TRUE],
      [rule_type |-> "null_percentage_is_less_than", column |-> Col("state"),
       params |-> [threshold |-> 10], on_fail |-> "WARN", quarantine |-> TRUE],
      [rule_type |-> "mean_is_between", column |-> Col("age"),
       params |-> [min |-> 20, max |-> 40], on_fail |-> "stop"],
      [rule_type |-> "is_positive", column |-> Col("age"), on_fail |-> "STOP"],
      [rule_type |-> "is_in_range", column |-> Col("age"),
       params |-> [min |-> 20, max |-> 40], quarantine |-> TRUE],
      [rule_type |-> "is_in_range", column |-> Col("age"),
       params |-> [min |-> 0, max |-> 50], on_fail |-> "WARN", quarantine |-> TRUE] }

\* The sequences over S of length at most n.
SeqUpTo(S, n) == UNION {[1..k -> S] : k \in 0..n}

\* The data sources of the validation sets, in declared order: the rule
\* documents of the model declare these two validation sets.
DataSources ==
    << [dataset_name |-> "Clientes", data_source_path |-> "data/customers_v2.csv",
        data_source_format |-> "csv"],
       [dataset_name |-> "Clientes Novos", data_source_path |-> "data/customers_empty.csv",
        data_source_format |-> "csv"] >>

\* The rule documents _load_rules may return.
RuleDocuments ==
    { [validation_sets |->
          [i \in DOMAIN DataSources |-> DataSources[i] @@ [rules |-> rs[i]]]]
      : rs \in [DOMAIN DataSources -> SeqUpTo(RuleCatalog, MaxRules)] }

\* ------------------------------------------------------------------------
\* State
\* ------------------------------------------------------------------------

VARIABLES
    rules,             \* self.rules, the rule document
    results,           \* self.results
    pc,                \* where the process is: in run() or in __main__
    vs,                \* index of the validation set the outer loop is at
    ri,                \* index of the rule the inner loop is at
    df,                \* the DataFrame loaded last, NoDf before a load
    quarantine_store,  \* parquet output of the quarantine store, by path
    quarantine_calls,  \* the calls of _quarantine_records so far
    reports,           \* the report files written so far
    log,               \* WARNING, ERROR and CRITICAL messages of the logger
    exit_code,         \* <<>> while running, <<code>> once the process exited
    trace              \* history: the loads and _execute_rule calls so far

vars == <<rules, results, pc, vs, ri, df, quarantine_store, quarantine_calls,
          reports, log, exit_code, trace>>

validation_sets == rules.validation_sets

NoDf == Frame({}, << >>)

Init ==
    /\ rules \in RuleDocuments
    /\ results = << >>
    /\ pc = "loop"
    /\ vs = 1
    /\ ri = 1
    /\ df = NoDf
    /\ quarantine_store = << >>
    /\ quarantine_calls = << >>
    /\ reports = << >>
    /\ log = << >>
    /\ exit_code = << >>
    /\ trace = << >>

\* ------------------------------------------------------------------------
\* Quarantine Router
\* ------------------------------------------------------------------------

\* output_path of _quarantine_records.
output_path(dataset_name, rule) ==
    LET quarantine_path == config.paths.quarantine_path
        column == ReplaceSpaces(Get(rule, "column", Col("no_column")))
    IN  <<quarantine_path, dataset_name, <<rule["rule_type"], "_">> \o column>>

\* df.write.mode("overwrite").parquet(output_path)
WriteParquet(store, path, records) == (path :> records) @@ store

\* ------------------------------------------------------------------------
\* Report Aggregator
\* ------------------------------------------------------------------------

\* Variant: the outcome goes into the report as it is.
ReportDetail_WithRows(r) == r

\* {k: v for k, v in r.items() if k != 'failing_records_df'}
ReportDetail(r) == [k \in DOMAIN r \ {"failing_records_df"} |-> r[k]]

\* Variant: only outcomes that carry failing rows are counted.
CountStatus_RowLevel(res, status) ==
    Cardinality({i \in DOMAIN res : /\ res[i]["status"] = status
                                    /\ "failing_records_df" \in DOMAIN res[i]})

\* sum(1 for r in self.results if r["status"] == status)
CountStatus(res, status) == Cardinality({i \in DOMAIN res : res[i]["status"] = status})

\* The report document _generate_report dumps (without its timestamp).
Report(res) ==
    [summary |-> [total_rules |-> Len(res),
                  passed |-> CountStatus(res, "PASS"),
                  failed |-> CountStatus(res, "FAIL")],
     details |-> [i \in DOMAIN res |-> ReportDetail(res[i])]]

\* ------------------------------------------------------------------------
\* Execution Controller
\* ------------------------------------------------------------------------

Msg(level, event) == [level |-> level, event |-> event]

\* Variant: the inner loop is left after its first iteration.
NextRule_LeaveLoop ==
    /\ pc' = "loop"
    /\ vs' = vs + 1
    /\ ri' = 1
    /\ UNCHANGED df

\* Control after the inner loop body: the next rule of the set, or the next
\* iteration of the outer loop when the set has no more rules.
NextRule ==
    IF ri < Len(validation_sets[vs].rules)
    THEN /\ ri' = ri + 1
         /\ UNCHANGED <<pc, vs, df>>
    ELSE /\ pc' = "loop"
         /\ vs' = vs + 1
         /\ ri' = 1
         /\ UNCHANGED df

\* "except DataQualityCheckFailedError" of run() (lines 46-47), up to its
\* critical message; lg is the log when the exception is caught.
ExceptCritical(lg) ==
    /\ log' = Append(lg, Msg("CRITICAL", "stop"))
    /\ pc' = "critical"
    /\ UNCHANGED <<vs, ri, df>>

\* Variant: the handler swallows the exception without logging it.
ExceptException_Silent(lg) ==
    /\ log' = lg
    /\ pc' = "loop"
    /\ vs' = vs + 1
    /\ ri' = 1
    /\ UNCHANGED df

\* Variant: the try block sits inside the inner loop, so the loop goes on
\* with the next rule.
ExceptException_Continue(lg) ==
    /\ log' = Append(lg, Msg("ERROR", "dataset"))
    /\ NextRule

\* Variant: the handler treats every exception as a critical failure.
ExceptException_Reraise(lg) ==
    /\ log' = Append(lg, Msg("ERROR", "dataset"))
    /\ pc' = "critical"
    /\ UNCHANGED <<vs, ri, df>>

\* "except Exception" of run() (lines 50-51): the error is logged and the
\* outer loop goes on with the next validation set.
ExceptException(lg) ==
    /\ log' = Append(lg, Msg("ERROR", "dataset"))
    /\ pc' = "loop"
    /\ vs' = vs + 1
    /\ ri' = 1
    /\ UNCHANGED df

\* Line 43: the dataset of the validation set is loaded, or the load raises.
LoadDataset ==
    /\ pc = "loop"
    /\ vs <= Len(validation_sets)
    /\ \E loaded \in BOOLEAN :
          /\ trace' = Append(trace, [op |-> "load", vs |-> vs, ok |-> loaded])
          /\ IF loaded
             THEN /\ df' = SparkLoad(validation_sets[vs].data_source_path)
                  /\ IF validation_sets[vs].rules = << >>
                     THEN /\ vs' = vs + 1
                          /\ UNCHANGED <<pc, ri>>
                     ELSE /\ pc' = "rules"
                          /\ ri' = 1
                          /\ UNCHANGED vs
                  /\ UNCHANGED log
             ELSE ExceptException(log)
    /\ UNCHANGED <<rules, results, quarantine_store, quarantine_calls, reports,
                   exit_code>>

\* Variant: the quarantine test is not nested in the FAIL branch.
Routed_IgnoresStatus(rule, result) ==
    /\ Get(rule, "quarantine", FALSE)
    /\ "failing_records_df" \in DOMAIN result

\* Lines 75 and 77: if result["status"] == "FAIL", and within it
\* if rule.get("quarantine", False) and "failing_records_df" in result
Routed(rule, result) ==
    /\ result["status"] = "FAIL"
    /\ Get(rule, "quarantine", FALSE)
    /\ "failing_records_df" \in DOMAIN result

\* Variant: every failure is critical, whatever the fail policy.
Critical_AnyFail(rule, result) ==
    /\ result["status"] = "FAIL"

\* if rule.get("on_fail", "WARN").upper() == "STOP"
Critical(rule, result) ==
    /\ result["status"] = "FAIL"
    /\ Upper(Get(rule, "on_fail", "WARN")) = "STOP"

\* What a call of _execute_rule that got past its append raises.
Raised(rule, result, written) ==
    IF Routed(rule, result) /\ ~written THEN "QuarantineError"
    ELSE IF Critical(rule, result) THEN "DataQualityCheckFailedError"
    ELSE "none"

\* What run() does with a call of _execute_rule that got past its append:
\* an exception of the quarantine write reaches "except Exception", the
\* DataQualityCheckFailedError of line 81 reaches its own handler.
AfterAppend(rule, result, written) ==
    IF Raised(rule, result, written) = "QuarantineError"
    THEN ExceptException(Append(log, Msg("WARNING", "rule")))
    ELSE IF Raised(rule, result, written) = "DataQualityCheckFailedError"
    THEN ExceptCritical(Append(log, Msg("WARNING", "rule")))
    ELSE /\ log' = IF result["status"] = "FAIL"
                   THEN Append(log, Msg("WARNING", "rule"))
                   ELSE log
         /\ NextRule

\* One iteration of the inner loop: _execute_rule(df, dataset_name, rule) and
\* the handling of what it raises.
ExecuteRule ==
    /\ pc = "rules"
    /\ LET dataset_name == validation_sets[vs].dataset_name
           rule == validation_sets[vs].rules[ri]
       IN  IF rule["rule_type"] \notin validation_map \/ ValidatorRaises(df, rule)
           THEN \* NotImplementedError, or the validator raised
                /\ ExceptException(log)
                /\ trace' = Append(trace,
                        [op |-> "rule", vs |-> vs, ri |-> ri, result_index |-> 0,
                         raised |-> IF rule["rule_type"] \notin validation_map
                                    THEN "NotImplementedError"
                                    ELSE "ValidatorError"])
                /\ UNCHANGED <<results, quarantine_store, quarantine_calls>>
           ELSE LET result == validation_func(df, rule)
                    path == output_path(dataset_name, rule)
                IN  /\ results' = Append(results,
                            [dataset_name |-> dataset_name, rule |-> rule] @@ result)
                    /\ \E written \in (IF Routed(rule, result) THEN BOOLEAN ELSE {TRUE}) :
                          /\ quarantine_calls' =
                                IF Routed(rule, result)
                                THEN Append(quarantine_calls,
                                        [dataset_name |-> dataset_name, rule |-> rule,
                                         output_path |-> path, written |-> written,
                                         result_index |-> Len(results) + 1])
                                ELSE quarantine_calls
                          /\ quarantine_store' =
                                IF Routed(rule, result) /\ written
                                THEN WriteParquet(quarantine_store, path,
                                                  result["failing_records_df"])
                                ELSE quarantine_store
                          /\ trace' = Append(trace,
                                  [op |-> "rule", vs |-> vs, ri |-> ri,
                                   result_index |-> Len(results) + 1,
                                   raised |-> Raised(rule, result, written)])
                          /\ AfterAppend(rule, result, written)
    /\ UNCHANGED <<rules, reports, exit_code>>

\* Variant: the critical handler re-raises without writing the report.
GenerateReportCritical_NoReport ==
    /\ pc = "critical"
    /\ pc' = "raise"
    /\ UNCHANGED <<rules, results, vs, ri, df, quarantine_store, quarantine_calls,
                   reports, log, exit_code, trace>>

\* Line 48: the report of a run a critical rule stopped.
GenerateReportCritical ==
    /\ pc = "critical"
    /\ reports' = Append(reports, Report(results))
    /\ pc' = "raise"
    /\ UNCHANGED <<rules, results, vs, ri, df, quarantine_store, quarantine_calls,
                   log, exit_code, trace>>

\* Line 53: the report of a run that went through every validation set.
GenerateReportFinal ==
    /\ pc = "loop"
    /\ vs > Len(validation_sets)
    /\ reports' = Append(reports, Report(results))
    /\ pc' = "returned"
    /\ UNCHANGED <<rules, results, vs, ri, df, quarantine_store, quarantine_calls,
                   log, exit_code, trace>>

\* Lines 216-219: run() raised DataQualityCheckFailedError.
MainExcept ==
    /\ pc = "raise"
    /\ exit_code' = <<1>>
    /\ pc' = "exited"
    /\ UNCHANGED <<rules, results, vs, ri, df, quarantine_store, quarantine_calls,
                   reports, log, trace>>

\* Lines 215, 220-223: run() returned.
MainReturn ==
    /\ pc = "returned"
    /\ exit_code' = <<0>>
    /\ pc' = "exited"
    /\ UNCHANGED <<rules, results, vs, ri, df, quarantine_store, quarantine_calls,
                   reports, log, trace>>

Next ==
    \/ LoadDataset
    \/ ExecuteRule
    \/ GenerateReportCritical
    \/ GenerateReportFinal
    \/ MainExcept
    \/ MainReturn

Spec == Init /\ [][Next]_vars

\* ------------------------------------------------------------------------
\* Runs over sampled DataFrames
\* ------------------------------------------------------------------------

\* A DataFrame of one column with the given cells, one per row.
Column(column, cells) ==
    Frame({column}, [i \in DOMAIN cells |-> (column :> cells[i])])

\* The DataFrames a first validation set is run on: every column of at most
\* MaxRows cells that are NULL, 1 or 2, the customer_id and age columns of
\* data/customers_v2.csv, and an age column of eight rows with two NULLs.
SampleFrames ==
    {Column(Col("age"), cells) : cells \in SeqUpTo({Null, V(1), V(2)}, MaxRows)}
    \cup {Column(Col("customer_id"),
                 <<V(101), V(102), V(103), V(104), V(104)>>),
          Column(Col("age"),
                 <<V(30), V(25), V(35), V(40), V(22), V(55), Null, V(28)>>),
          Column(Col("state"),
                 <<V(1), V(2), V(3), V(1), V(4), Null, Null, V(2)>>)}

\* rule["params"] of the rules run on the samples, by rule type.
SampleParams(rule_type) ==
    CASE rule_type = "has_accepted_values" -> {[values |-> {1}], [values |-> {1, 2}]}
      [] rule_type = "is_in_range" -> {[min |-> 1, max |-> 1], [min |-> 1, max |-> 2]}
      [] rule_type = "matches_regex" -> {[pattern |-> {2}]}
      [] rule_type = "null_percentage_is_less_than" ->
            {[threshold |-> t] : t \in {-5, 0, 15, 25, 50, 100}}
      [] rule_type = "mean_is_between" ->
            {[min |-> 1, max |-> 1], [min |-> 1, max |-> 2], [min |-> 2, max |-> 2],
             [min |-> 2, max |-> 1], [min |-> 20, max |-> 40]}
      [] OTHER -> {}

\* The rules run on a sample: every rule type of validation_map on the
\* column of the sample, with on_fail and quarantine omitted or given.
SampleRules(column) ==
    LET typed(t) == [rule_type |-> t, column |-> column]
        bare == {typed(t) : t \in {"is_not_null", "is_unique"}}
                \cup UNION {{typed(t) @@ [params |-> p] : p \in SampleParams(t)} :
                               t \in validation_map}
    IN  bare \cup {r @@ [on_fail |-> "WARN", quarantine |-> TRUE] : r \in bare}

\* Rule documents of two validation sets: a sample with a rule under test
\* followed by a STOP rule, then data/customers_v2.csv with the mean rule of
\* setup_test_environment.
SampleDocument(column, rule) ==
    [validation_sets |->
        << [dataset_name |-> "Amostra", data_source_path |-> "data/sample.csv",
            data_source_format |-> "csv",
            rules |-> << rule,
                         [rule_type |-> "is_not_null", column |-> column,
                          on_fail |-> "STOP"] >>],
           DataSources[1] @@
             [rules |-> << [rule_type |-> "mean_is_between", column |-> Col("age"),
                            params |-> [min |-> 20, max |-> 40],
                            on_fail |-> "WARN"] >>] >>]

\* run() has loaded the sample of the first validation set and is about to
\* execute its first rule.
InitSample ==
    /\ df \in SampleFrames
    /\ \E column \in df.schema :
          \E rule \in SampleRules(column) : rules = SampleDocument(column, rule)
    /\ results = << >>
    /\ pc = "rules"
    /\ vs = 1
    /\ ri = 1
    /\ quarantine_store = << >>
    /\ quarantine_calls = << >>
    /\ reports = << >>
    /\ log = << >>
    /\ exit_code = << >>
    /\ trace = <<[op |-> "load", vs |-> 1, ok |-> TRUE]>>

SpecSample == InitSample /\ [][Next]_vars

\* ------------------------------------------------------------------------
\* Properties
\* ------------------------------------------------------------------------

\* The outcome entry is a failure of a rule whose fail policy is STOP.
StopFail(entry) ==
    /\ entry["status"] = "FAIL"
    /\ "on_fail" \in DOMAIN entry["rule"]
    /\ entry["rule"]["on_fail"] \in {"STOP", "stop", "Stop"}

\* The _execute_rule calls of the trace that appended an outcome.
Evaluations == {i \in DOMAIN trace : trace[i].op = "rule" /\ trace[i].result_index > 0}

\* run() is over: it returned or it raised.
Terminated == pc \in {"raise", "returned", "exited"}

\* The k-th detail of a report is the k-th outcome without its failing rows.
DetailOf(report, res, k) ==
    /\ report.details[k]["dataset_name"] = res[k]["dataset_name"]
    /\ report.details[k]["rule"] = res[k]["rule"]
    /\ report.details[k]["status"] = res[k]["status"]
    /\ report.details[k]["metrics"] = res[k]["metrics"]

\* C1: once a STOP rule has evaluated to FAIL nothing is loaded or evaluated
\* after it, and the report of the run holds every outcome recorded, the
\* failing STOP outcome included.
C1_StopHaltsRun ==
    /\ \A i \in Evaluations :
          StopFail(results[trace[i].result_index]) => i = Len(trace)
    /\ (Terminated /\ \E k \in DOMAIN results : StopFail(results[k])) =>
          /\ Len(reports) = 1
          /\ Len(reports[1].details) = Len(results)
          /\ \A k \in DOMAIN results : DetailOf(reports[1], results, k)

\* C2: the process exits 1 exactly when a STOP rule evaluated to FAIL, and 0
\* otherwise.
C2_ExitCodeIffStopFail ==
    pc = "exited" =>
        IF \E k \in DOMAIN results : StopFail(results[k])
        THEN exit_code = <<1>>
        ELSE exit_code = <<0>>

\* The step is a call of _execute_rule whose quarantine write raised.
QuarantineWriteFailed ==
    /\ Len(trace') = Len(trace) + 1
    /\ trace'[Len(trace')].op = "rule"
    /\ trace'[Len(trace')].raised = "QuarantineError"

\* C3: a quarantine write that raises changes neither the recorded status nor
\* what runs next: a STOP rule still stops the run, any other rule is
\* followed by the next rule of its validation set.
C3_QuarantineFailureNonFatal ==
    [][QuarantineWriteFailed =>
          /\ results'[Len(results')]["status"] = "FAIL"
          /\ IF StopFail(results'[Len(results')])
             THEN pc' = "critical"
             ELSE IF ri < Len(validation_sets[vs].rules)
                  THEN pc' = "rules" /\ vs' = vs /\ ri' = ri + 1
                  ELSE pc' = "loop" /\ vs' = vs + 1]_vars

\* The step is a call of _execute_rule that raised before it appended an
\* outcome: the rule type is unknown or the rule is malformed.
RuleRejected ==
    /\ Len(trace') = Len(trace) + 1
    /\ trace'[Len(trace')].op = "rule"
    /\ trace'[Len(trace')].raised \in {"NotImplementedError", "ValidatorError"}

ErrorLogged == log' = Append(log, [level |-> "ERROR", event |-> "dataset"])

\* C4 as stated: a rule of unknown type records no outcome, logs an error,
\* and the run goes on with the next rule of the same validation set.
C4_UnknownRuleSkipsOnlyItself ==
    [][RuleRejected =>
          /\ results' = results
          /\ ErrorLogged
          /\ ri < Len(validation_sets[vs].rules) =>
                pc' = "rules" /\ vs' = vs /\ ri' = ri + 1]_vars

\* C4 as amended: a rule of unknown type records no outcome, logs an error,
\* and the run goes on with the next validation set: the remaining rules of
\* its own validation set are skipped.
C4_UnknownRuleSkipsRestOfSet ==
    [][RuleRejected =>
          /\ results' = results
          /\ ErrorLogged
          /\ pc' = "loop" /\ vs' = vs + 1
          /\ UNCHANGED <<reports, exit_code, quarantine_store, quarantine_calls>>]_vars

\* A rule of unknown type was met in the first validation set while a later
\* rule of the set was still to run, the run went on to load the second
\* validation set, and there a validator raised on its first rule.
C4_Witness ==
    /\ \E i \in DOMAIN trace :
          /\ trace[i].op = "rule"
          /\ trace[i].raised = "NotImplementedError"
          /\ trace[i].ri < Len(validation_sets[trace[i].vs].rules)
          /\ i < Len(trace)
          /\ trace[i + 1].op = "load"
    /\ \E i \in DOMAIN trace :
          /\ trace[i].op = "rule"
          /\ trace[i].raised = "ValidatorError"
          /\ trace[i].ri < Len(validation_sets[trace[i].vs].rules)

\* The outcomes recorded for the k-th validation set.
OutcomesOf(k) ==
    {j \in DOMAIN results : results[j]["dataset_name"] = validation_sets[k].dataset_name}

\* The trace goes on after position i with the load of the next validation
\* set, if there is one and the run has got that far.
NextSetLoaded(i) ==
    (trace[i].vs < Len(validation_sets) /\ (i < Len(trace) \/ Terminated)) =>
        /\ i < Len(trace)
        /\ trace[i + 1].op = "load"
        /\ trace[i + 1].vs = trace[i].vs + 1

\* A run in which no STOP rule failed ends normally, with its report.
NormalCompletion ==
    (Terminated /\ ~\E k \in DOMAIN results : StopFail(results[k])) =>
        /\ pc \in {"returned", "exited"}
        /\ Len(reports) = 1
        /\ exit_code # <<1>>

\* C5: an unknown rule type aborts its validation set and nothing more: no
\* outcome is recorded for the rule, no later rule of the set is evaluated,
\* the next validation set is still loaded, and the run ends normally with
\* its report unless a STOP rule fails elsewhere.
C5_UnknownRuleAbortsSet ==
    /\ \A j \in DOMAIN results : results[j]["rule"]["rule_type"] \in validation_map
    /\ \A i \in DOMAIN trace :
          (trace[i].op = "rule" /\ trace[i].raised = "NotImplementedError") =>
              /\ Cardinality(OutcomesOf(trace[i].vs)) = trace[i].ri - 1
              /\ ~\E j \in DOMAIN trace :
                     j > i /\ trace[j].op = "rule" /\ trace[j].vs = trace[i].vs
              /\ NextSetLoaded(i)
              /\ (Terminated /\ i = Len(trace)) => pc \in {"returned", "exited"}
              /\ NormalCompletion

\* The first validation set was aborted by an unknown rule type with a rule
\* left, the second one was evaluated, and the process exited with 0.
C5_Witness ==
    /\ pc = "exited"
    /\ exit_code = <<0>>
    /\ \E i \in DOMAIN trace :
          /\ trace[i].op = "rule"
          /\ trace[i].raised = "NotImplementedError"
          /\ trace[i].vs = 1
          /\ trace[i].ri < Len(validation_sets[1].rules)
    /\ OutcomesOf(2) # {}

\* The step is a load of a dataset that raised.
LoadFailed ==
    /\ Len(trace') = Len(trace) + 1
    /\ trace'[Len(trace')].op = "load"
    /\ ~trace'[Len(trace')].ok

\* C6: a dataset that fails to load costs its validation set only: none of
\* its rules is evaluated and no outcome is recorded for it, the outcomes
\* recorded before are kept, the next validation set is still loaded, and
\* the run ends normally with its report unless a STOP rule fails.
C6_LoadFailureSkipsSet ==
    /\ [](\A i \in DOMAIN trace :
            (trace[i].op = "load" /\ ~trace[i].ok) =>
                /\ OutcomesOf(trace[i].vs) = {}
                /\ ~\E j \in DOMAIN trace :
                       trace[j].op = "rule" /\ trace[j].vs = trace[i].vs
                /\ NextSetLoaded(i)
                /\ (Terminated /\ i = Len(trace)) => pc \in {"returned", "exited"}
                /\ NormalCompletion)
    /\ [][LoadFailed => results' = results /\ reports' = reports /\ ErrorLogged]_vars

\* The first dataset failed to load although its validation set declares
\* rules, both rules of the second validation set were evaluated, and the
\* process exited with 0 and a report of those two outcomes.
C6_Witness ==
    /\ pc = "exited"
    /\ exit_code = <<0>>
    /\ \E i \in DOMAIN trace : trace[i].op = "load" /\ trace[i].vs = 1 /\ ~trace[i].ok
    /\ validation_sets[1].rules # << >>
    /\ Cardinality(OutcomesOf(2)) = 2
    /\ Len(reports) = 1
    /\ reports[1].summary.total_rules = 2

\* C7: a run that is over has written exactly one report, a run that is not
\* over has written none (so the report follows the last rule evaluation and
\* precedes the propagation of the critical failure), and the report counts
\* every outcome of the run.
C7_ReportExactlyOnce ==
    /\ Terminated => Len(reports) = 1 /\ reports[1].summary.total_rules = Len(results)
    /\ ~Terminated => reports = << >>
    /\ exit_code # << >> => Len(reports) = 1

\* run() wrote its report, of outcomes of both validation sets, and is about
\* to raise the critical failure.
C7_Witness ==
    /\ pc = "raise"
    /\ Len(reports) = 1
    /\ exit_code = << >>
    /\ OutcomesOf(1) # {} /\ OutcomesOf(2) # {}

\* C8: every recorded outcome is PASS or FAIL, and in every report written
\* passed + failed = total_rules = len(details).
C8_SummaryCounts ==
    /\ \A j \in DOMAIN results : results[j]["status"] \in {"PASS", "FAIL"}
    /\ \A n \in DOMAIN reports :
          /\ reports[n].summary.passed + reports[n].summary.failed
                = reports[n].summary.total_rules
          /\ reports[n].summary.total_rules = Len(reports[n].details)

\* A report with passed and failed outcomes, of a run cut short by a STOP
\* failure of an aggregate check.
C8_Witness ==
    /\ pc = "raise"
    /\ Len(reports) = 1
    /\ reports[1].summary.passed >= 1
    /\ reports[1].summary.failed >= 2
    /\ \E k \in DOMAIN results :
          StopFail(results[k]) /\ "failing_records_df" \notin DOMAIN results[k]

\* The calls of the Quarantine Router made for the j-th outcome.
CallsFor(j) == {c \in DOMAIN quarantine_calls : quarantine_calls[c].result_index = j}

AggregateChecks == {"null_percentage_is_less_than", "mean_is_between"}

Written == {c \in DOMAIN quarantine_calls : quarantine_calls[c].written}

\* C10: the quarantine store holds one output per quarantined rule: two
\* rules quarantined in one run never write to the same path.
C10_OneOutputPerRule ==
    /\ \A c, d \in Written :
          c # d => quarantine_calls[c].output_path # quarantine_calls[d].output_path
    /\ Cardinality(DOMAIN quarantine_store) = Cardinality(Written)

\* ------------------------------------------------------------------------
\* Properties of the validators, on the sampled DataFrames
\* ------------------------------------------------------------------------

\* The first rule of the first validation set has just been evaluated on df
\* and its outcome is results[1].
Validated ==
    /\ Len(trace) = 2
    /\ trace[2].op = "rule"
    /\ trace[2].vs = 1 /\ trace[2].ri = 1
    /\ trace[2].result_index = 1

\* The rule that was evaluated, and its type.
RuleUnderTest == validation_sets[1].rules[1]

Evaluated(rule_type) == Validated /\ RuleUnderTest["rule_type"] = rule_type

\* The rows of df whose cell in the rule's column is NULL / is not.
NullRows == {i \in DOMAIN df.rows : df.rows[i][RuleUnderTest["column"]] = << >>}

ValueRows == DOMAIN df.rows \ NullRows

\* The value of row i in the rule's column.
ValueAt(i) == df.rows[i][RuleUnderTest["column"]][1]

\* C11: on a DataFrame without rows the null percentage is 0 and
\* the status is PASS for every threshold.
C11_EmptyAlwaysPasses ==
    (Evaluated("null_percentage_is_less_than") /\ df.rows = << >>) =>
        /\ results[1]["metrics"].null_percentage = 0
        /\ results[1]["status"] = "PASS"

\* The rows whose value, NULL included, occurs in more than one row.
RepeatedRows ==
    {i \in DOMAIN df.rows :
        \E j \in DOMAIN df.rows :
            j # i /\ df.rows[j][RuleUnderTest["column"]] = df.rows[i][RuleUnderTest["column"]]}

\* The rows of the failing_records_df of the outcome, as a bag of cells.
FailingCells ==
    LET f == results[1]["failing_records_df"].rows
    IN  [c \in {f[k][RuleUnderTest["column"]] : k \in DOMAIN f} |->
            Cardinality({k \in DOMAIN f : f[k][RuleUnderTest["column"]] = c})]

\* The rows of df in a set of row numbers, as a bag of cells.
CellsOf(I) ==
    [c \in {df.rows[i][RuleUnderTest["column"]] : i \in I} |->
        Cardinality({i \in I : df.rows[i][RuleUnderTest["column"]] = c})]

\* C12: is_unique reports as duplicate_count the number of rows whose value
\* occurs more than once, and those rows are its failing rows; on
\* {101,102,103,104,104} it returns FAIL with duplicate_count 2.
C12_DuplicateCountIsRows ==
    Evaluated("is_unique") =>
        /\ results[1]["metrics"].duplicate_count = Cardinality(RepeatedRows)
        /\ FailingCells = CellsOf(RepeatedRows)
        /\ results[1]["status"] = "FAIL" <=> RepeatedRows # {}

RECURSIVE SumOver(_)
\* The sum of the values of a set of rows with values.
SumOver(I) ==
    IF I = {} THEN 0
    ELSE LET i == CHOOSE i \in I : TRUE IN ValueAt(i) + SumOver(I \ {i})

\* C13: mean_is_between returns FAIL with mean_value N/A when the column has
\* no non-null value, whatever min and max are, and otherwise PASS exactly
\* when min <= mean <= max.
C13_MeanBetween ==
    Evaluated("mean_is_between") =>
        LET n == Cardinality(ValueRows)
            total == SumOver(ValueRows)
            p == RuleUnderTest["params"]
        IN  IF n = 0
            THEN /\ results[1]["status"] = "FAIL"
                 /\ results[1]["metrics"].mean_value = <<"N/A">>
            ELSE /\ results[1]["metrics"].mean_value # <<"N/A">>
                 /\ results[1]["status"] = "PASS"
                       <=> (p.min * n <= total /\ total <= p.max * n)
                 /\ results[1]["status"] \in {"PASS", "FAIL"}

\* mean_is_between returned FAIL with N/A on a column of NULLs only, and
\* with bounds that hold a value.
C13_Witness ==
    /\ Evaluated("mean_is_between")
    /\ df.rows # << >>
    /\ ValueRows = {}
    /\ RuleUnderTest["params"].min <= RuleUnderTest["params"].max
    /\ results[1]["status"] = "FAIL"
    /\ results[1]["metrics"].mean_value = <<"N/A">>

\* ------------------------------------------------------------------------
\* Properties of the result log and of the report
\* ------------------------------------------------------------------------

\* The rules of the document, each by validation set and position.
RuleOccurrences ==
    UNION {{<<v, r>> : r \in DOMAIN validation_sets[v].rules} : v \in DOMAIN validation_sets}

\* The evaluations of a rule occurrence that appended an outcome.
EntriesOf(o) == {i \in Evaluations : trace[i].vs = o[1] /\ trace[i].ri = o[2]}

\* The step leaves the result log alone or appends one entry to it.
AppendOnly ==
    \/ results' = results
    \/ /\ Len(results') = Len(results) + 1
       /\ SubSeq(results', 1, Len(results)) = results

\* Every entry is the outcome of one rule occurrence, the entries are in the
\* order of the document, and no occurrence has two of them.
InDeclaredOrder ==
    /\ \A k \in DOMAIN results :
          \E i \in Evaluations :
             /\ trace[i].result_index = k
             /\ results[k]["rule"] = validation_sets[trace[i].vs].rules[trace[i].ri]
             /\ results[k]["dataset_name"] = validation_sets[trace[i].vs].dataset_name
    /\ \A i, j \in Evaluations :
          i < j => /\ trace[i].result_index < trace[j].result_index
                   /\ \/ trace[i].vs < trace[j].vs
                      \/ trace[i].vs = trace[j].vs /\ trace[i].ri < trace[j].ri
    /\ \A o \in RuleOccurrences : Cardinality(EntriesOf(o)) <= 1

\* What the calls of _execute_rule raised so far.
RaisedSoFar == {trace[i].raised : i \in {j \in DOMAIN trace : trace[j].op = "rule"}}

\* No load failed so far.
NoLoadFailure == \A i \in DOMAIN trace : trace[i].op = "load" => trace[i].ok

\* Every rule occurrence has exactly one entry.
OneEntryEach == \A o \in RuleOccurrences : Cardinality(EntriesOf(o)) = 1

WarnFailStep ==
    /\ Len(trace') = Len(trace) + 1
    /\ trace'[Len(trace')].op = "rule"
    /\ trace'[Len(trace')].result_index = Len(results) + 1
    /\ Len(results') = Len(results) + 1
    /\ results'[Len(results')]["status"] = "FAIL"
    /\ ~StopFail(results'[Len(results')])
    /\ trace'[Len(trace')].raised # "QuarantineError"

\* The inner loop goes on with the next rule of the validation set, and the
\* outer loop with the next validation set after the last rule.
LoopGoesOn ==
    /\ trace'[Len(trace')].raised = "none"
    /\ IF ri < Len(validation_sets[vs].rules)
       THEN pc' = "rules" /\ vs' = vs /\ ri' = ri + 1
       ELSE pc' = "loop" /\ vs' = vs + 1

\* A run is stopped by the failure of a STOP rule only.
StoppedByStopOnly ==
    (pc \in {"critical", "raise"} \/ exit_code = <<1>>) =>
        \E k \in DOMAIN results : StopFail(results[k])

\* A run that returned went through every validation set.
EverySetProcessed ==
    (pc = "returned" \/ exit_code = <<0>>) =>
        \A v \in DOMAIN validation_sets :
            \E i \in DOMAIN trace : trace[i].op = "load" /\ trace[i].vs = v

\* null_percentage_is_less_than passes exactly when the percentage of NULLs
\* is below the threshold; 2 NULLs in 8 rows are reported as 25.00.
StrictThreshold ==
    (Evaluated("null_percentage_is_less_than") /\ df.rows # << >>) =>
        /\ results[1]["status"] = "PASS"
              <=> Cardinality(NullRows) * 100
                     < RuleUnderTest["params"].threshold * Len(df.rows)
        /\ (Len(df.rows) = 8 /\ Cardinality(NullRows) = 2) =>
              results[1]["metrics"].null_percentage = 2500

\* C15: a FAIL of a rule whose fail policy is WARN or omitted, with no
\* quarantine failure, stops nothing: the next rule and the later validation
\* sets are processed and the run ends normally unless a STOP rule fails;
\* the null percentage is compared strictly, so 25.00 fails for thresholds
\* 15 and 25.
C15_WarnFailStopsNothing ==
    /\ [][WarnFailStep => LoopGoesOn]_vars
    /\ [](StoppedByStopOnly /\ EverySetProcessed /\ NormalCompletion /\ StrictThreshold)

\* A null percentage equal to the threshold (2 NULLs in 8 rows, threshold
\* 25) failed under the default fail policy, and the next rule is up.
C15_Witness ==
    /\ Evaluated("null_percentage_is_less_than")
    /\ Len(df.rows) = 8
    /\ Cardinality(NullRows) = 2
    /\ RuleUnderTest["params"].threshold = 25
    /\ "on_fail" \notin DOMAIN RuleUnderTest
    /\ results[1]["status"] = "FAIL"
    /\ pc = "rules"
    /\ ri = 2

RowLevelChecks ==
    {"is_not_null", "is_unique", "has_accepted_values", "is_in_range", "matches_regex"}

\* The count metric of a row-level outcome.
CountMetric(entry) ==
    CASE entry["rule"]["rule_type"] = "is_not_null" -> entry["metrics"].null_count
      [] entry["rule"]["rule_type"] = "is_unique" -> entry["metrics"].duplicate_count
      [] entry["rule"]["rule_type"] = "has_accepted_values" -> entry["metrics"].invalid_count
      [] entry["rule"]["rule_type"] = "is_in_range" -> entry["metrics"].out_of_range_count
      [] entry["rule"]["rule_type"] = "matches_regex" -> entry["metrics"].mismatch_count

\* C16: a row-level check passes exactly when it returns no failing rows,
\* its count metric is then 0, and a FAIL comes with failing rows, also on
\* columns with NULLs.
C16_PassIffNoFailingRows ==
    (Validated /\ RuleUnderTest["rule_type"] \in RowLevelChecks) =>
        LET failing_rows == results[1]["failing_records_df"].rows
        IN  /\ results[1]["status"] = "PASS" <=> failing_rows = << >>
            /\ results[1]["status"] = "PASS" => CountMetric(results[1]) = 0
            /\ results[1]["status"] = "FAIL" => failing_rows # << >>

ReportFields == {"dataset_name", "rule", "status", "metrics"}

\* C17: every detail of every report has the fields dataset_name, rule,
\* status and metrics of its outcome and nothing else, so never the failing
\* rows, and writing a report leaves the result log as it is.
C17_ReportWithoutFailingRows ==
    /\ [][reports' # reports => results' = results]_vars
    /\ [](\A r \in DOMAIN reports :
             /\ DOMAIN reports[r].details = DOMAIN results
             /\ \A k \in DOMAIN reports[r].details :
                   /\ DOMAIN reports[r].details[k] = ReportFields
                   /\ DetailOf(reports[r], results, k))

\* A report was written while the result log held an outcome with failing
\* rows, which it still holds.
C17_Witness ==
    /\ reports # << >>
    /\ \E k \in DOMAIN results :
          /\ "failing_records_df" \in DOMAIN results[k]
          /\ results[k]["failing_records_df"].rows # << >>
          /\ "failing_records_df" \notin DOMAIN reports[1].details[k]

====
